---------------------------- MODULE Spec2Model ----------------------------
(***************************************************************************)
(* The request lifecycle of the RES service library (request.go): the      *)
(* reply methods of a Request, the reply-once guard of Request.reply, and  *)
(* Request.executeHandler with its deferred panic recovery and its         *)
(* missing-response fallback.                                              *)
(*                                                                         *)
(* A Request is modelled by its fields (rtype, method, query, params,      *)
(* token, replied) and the handler set hs it was resolved to.  The world   *)
(* around it is three append-only records: sent (everything published to   *)
(* r.msg.Reply), logged (Service.Logf lines) and traced (Service.Tracef    *)
(* lines).  Go panics are values: a method either returns or leaves a      *)
(* panic value in the field pan of the state record it works on.           *)
(***************************************************************************)
EXTENDS Integers, Sequences, FiniteSets, TLC

VARIABLES
    rtype,      \* Request.rtype
    method,     \* Request.method
    query,      \* Resource.query of the embedded Resource
    params,     \* Request.params (raw JSON, or RawNil)
    token,      \* Request.token  (raw JSON, or RawNil)
    hs,         \* the handler set r.hs
    replied,    \* Request.replied
    sent,       \* messages handed to the transport for r.msg.Reply, in order
    logged,     \* lines written with Service.Logf, in order
    traced,     \* lines written with Service.Tracef, in order
    decoded,    \* the value behind the pointer given to ParseParams/ParseToken
    pc,         \* where the goroutine serving the request is
    nops,       \* number of Request methods called so far
    last,       \* the last Request method call and how it ended
    term,       \* how the handler ended, and the state it ended in
    gr          \* the two goroutines of the concurrent-reply scenario

vars == <<rtype, method, query, params, token, hs, replied, sent, logged,
          traced, decoded, pc, nops, last, term, gr>>

reqvars == <<rtype, method, query, params, token, hs>>

-----------------------------------------------------------------------------
(* Bounds *)

\* Request methods a handler (or a direct caller) calls on one Request.
MaxOps == 2

-----------------------------------------------------------------------------
(* Static responses, request.go:168-176 *)

responseAccessDenied ==
    "{\"error\":{\"code\":\"system.accessDenied\",\"message\":\"Access denied\"}}"
responseInternalError ==
    "{\"error\":{\"code\":\"system.internalError\",\"message\":\"Internal error\"}}"
responseNotFound ==
    "{\"error\":{\"code\":\"system.notFound\",\"message\":\"Not found\"}}"
responseMethodNotFound ==
    "{\"error\":{\"code\":\"system.methodNotFound\",\"message\":\"Method not found\"}}"
responseInvalidParams ==
    "{\"error\":{\"code\":\"system.invalidParams\",\"message\":\"Invalid parameters\"}}"
responseMissingResponse ==
    "{\"error\":{\"code\":\"system.internalError\",\"message\":\"Internal error: missing response\"}}"
responseAccessGranted ==
    "{\"result\":{\"get\":true,\"call\":\"*\"}}"

\* Error codes of the protocol (the Code* constants used by request.go).
CodeInvalidParams == "system.invalidParams"
CodeInternalError == "system.internalError"

-----------------------------------------------------------------------------
(* Go values *)

\* A panic value (or none).  kind tells the dynamic type that the type
\* switch of executeHandler sees.
PanicValue(kind, code, msg) == [kind |-> kind, code |-> code, msg |-> msg]
NoPanic       == PanicValue("none", "", "")
StringPanic(m) == PanicValue("string", "", m)
ErrorPanic(m)  == PanicValue("error", "", m)          \* an error, not a *Error
ResError(c, m) == PanicValue("*Error", c, m)          \* a non-nil *Error
NilResError    == PanicValue("nil *Error", "", "")     \* (*Error)(nil)
OtherPanic(m)  == PanicValue("other", "", m)          \* any other type; m is its %v form
NilPanic       == PanicValue("nil", "", "")           \* panic(nil)

\* The panics the library itself raises.
PanicAlreadySent     == StringPanic("res: response already sent on request")
PanicQueryModel      == StringPanic("res: query model response on non-query request")
PanicQueryCollection == StringPanic("res: query collection response on non-query request")
PanicNegativeTimeout == StringPanic("res: negative timeout duration")

\* A runtime error raised by a nil pointer dereference.
NilDereference ==
    ErrorPanic("runtime error: invalid memory address or nil pointer dereference")

\* A nil json.RawMessage.
RawNil == "<nil>"

\* json.Unmarshal of raw into a valid pointer: the decoded value, or an error.
ValidJSON == {"{\"title\":\"Dune\"}", "{\"user\":\"ann\"}"}
Unmarshal(raw) ==
    IF raw = RawNil
    THEN [err |-> "unexpected end of JSON input", val |-> ""]
    ELSE IF raw \in ValidJSON
         THEN [err |-> "", val |-> raw]
         ELSE [err |-> "invalid character 'x' looking for beginning of value",
               val |-> ""]

\* A Go value given to a reply method, by what json.Marshal makes of it.
GoValue(json, err) == [json |-> json, err |-> err]
NilValue     == GoValue("null", "")
ObjectValue  == GoValue("{\"id\":1}", "")
ArrayValue   == GoValue("[1,2]", "")
RefValue     == GoValue("{\"rid\":\"library.book.4\"}", "")
ChanValue    == GoValue("", "json: unsupported type: chan int")


-----------------------------------------------------------------------------
(* Encodings and services outside request.go *)

\* A JSON string literal.  Every string of this model is free of the
\* characters JSON escapes.
JSONString(str) == "\"" \o str \o "\""

\* json.Marshal(errorResponse{Error: e}).
MarshalErrorResponse(e) ==
    IF e = NilResError
    THEN "{\"error\":null}"
    ELSE "{\"error\":{\"code\":" \o JSONString(e.code)
         \o ",\"message\":" \o JSONString(e.msg) \o "}}"

\* json.Marshal(successResponse{Result: v}) for a plain value: data or error.
MarshalSuccessResponse(v) ==
    IF v.err # ""
    THEN [data |-> "", err |-> v.err]
    ELSE [data |-> "{\"result\":" \o v.json \o "}", err |-> ""]

\* The query member of a model or collection response, omitted when empty.
QueryMember(q) == IF q = "" THEN "" ELSE ",\"query\":" \o JSONString(q)

\* modelResponse{Model: v, Query: q} and collectionResponse{Collection: v,
\* Query: q} as Go values.
modelResponse(v, q) ==
    IF v.err # "" THEN v
    ELSE GoValue("{\"model\":" \o v.json \o QueryMember(q) \o "}", "")
collectionResponse(v, q) ==
    IF v.err # "" THEN v
    ELSE GoValue("{\"collection\":" \o v.json \o QueryMember(q) \o "}", "")

\* okResponse{Get: get, Call: call} as a Go value.
okResponse(get, call) ==
    GoValue("{\"get\":" \o (IF get THEN "true" ELSE "false")
            \o ",\"call\":" \o JSONString(call) \o "}", "")

\* ToError(err) for an error that is not a *Error: an internal error.
ToError(msg) == ResError(CodeInternalError, "Internal error: " \o msg)

\* r.msg.Subject: the subject the request arrived on.
Subject ==
    rtype \o ".library.books" \o (IF method = "" THEN "" ELSE "." \o method)

\* r.msg.Reply: the reply address is one fixed inbox; sent is what reached it.
\* A message on it: its bytes, who published it, and the error nc.Publish
\* returned ("" for nil).
Message(data, via, err) == [data |-> data, via |-> via, err |-> err]

\* Service.Logf and Service.Tracef lines.
LogSendError(err)   == "error sending reply " \o Subject \o ": " \o err
LogHandleError(str) == "error handling request " \o Subject \o ": " \o str
TraceReply(payload) == "<== " \o Subject \o ": " \o payload
\* r.s.Logf("unknown request type: %s", r.Type) formats the method value
\* r.Type, not its result.
LogUnknownType == "unknown request type: %!s(func() string=0x4f2a60)"

\* Service.rawEvent(subject, payload): a fire-and-forget publish.
rawEvent(s, payload) ==
    [s EXCEPT !.sent = Append(@, Message(payload, "rawEvent", ""))]

-----------------------------------------------------------------------------
(* The Request as a value: the part of the state a method call works on *)

Self == [replied |-> replied, sent |-> sent, logged |-> logged,
         traced |-> traced, decoded |-> decoded, pan |-> NoPanic]

Raise(s, v) == [s EXCEPT !.pan = v]

-----------------------------------------------------------------------------
(* request.go:384-396, 363-382 *)

\* Request.reply.  perr is the error nc.Publish returns ("" for nil).
\* (replyUnguarded is reply without the check of line 387; replyReopens
\* counts the reply as sent only when the publish succeeded.)
replyReopens(s, payload, perr) ==
    IF s.replied
    THEN Raise(s, PanicAlreadySent)
    ELSE [s EXCEPT
            !.replied = (perr = ""),
            !.traced  = Append(@, TraceReply(payload)),
            !.sent    = Append(@, Message(payload, "Publish", perr)),
            !.logged  = IF perr # "" THEN Append(@, LogSendError(perr)) ELSE @]
replyUnguarded(s, payload, perr) ==
    [s EXCEPT
        !.replied = TRUE,
        !.traced  = Append(@, TraceReply(payload)),
        !.sent    = Append(@, Message(payload, "Publish", perr)),
        !.logged  = IF perr # "" THEN Append(@, LogSendError(perr)) ELSE @]
reply(s, payload, perr) ==
    IF s.replied
    THEN Raise(s, PanicAlreadySent)
    ELSE [s EXCEPT
            !.replied = TRUE,
            !.traced  = Append(@, TraceReply(payload)),
            !.sent    = Append(@, Message(payload, "Publish", perr)),
            !.logged  = IF perr # "" THEN Append(@, LogSendError(perr)) ELSE @]

\* Request.error.  Marshalling a *Error (two strings) does not fail, so the
\* responseInternalError of line 378 is never taken.
error(s, e, perr) == reply(s, MarshalErrorResponse(e), perr)

\* Request.success
success(s, result, perr) ==
    LET m == MarshalSuccessResponse(result)
    IN  IF m.err # ""
        THEN error(s, ToError(m.err), perr)
        ELSE reply(s, m.data, perr)


-----------------------------------------------------------------------------
(* The reply methods, request.go:220-328 *)

OK(s, result, perr) == success(s, result, perr)

Error(s, err, perr) == error(s, err, perr)

NotFound(s, perr) == reply(s, responseNotFound, perr)

MethodNotFound(s, perr) == reply(s, responseMethodNotFound, perr)

InvalidParams(s, message, perr) ==
    IF message = ""
    THEN reply(s, responseInvalidParams, perr)
    ELSE error(s, ResError(CodeInvalidParams, message), perr)

\* Request.Access (AccessUnnormalized is Access without the test of line 259).
AccessUnnormalized(s, get, call, perr) ==
    success(s, okResponse(get, call), perr)
Access(s, get, call, perr) ==
    IF ~get /\ call = ""
    THEN reply(s, responseAccessDenied, perr)
    ELSE success(s, okResponse(get, call), perr)

AccessDenied(s, perr) == reply(s, responseAccessDenied, perr)

AccessGranted(s, perr) == reply(s, responseAccessGranted, perr)

\* Request.model (modelUnguarded is model without the guard of line 295).
modelUnguarded(s, m, q, perr) == success(s, modelResponse(m, q), perr)
model(s, m, q, perr) ==
    IF q # "" /\ query = ""
    THEN Raise(s, PanicQueryModel)
    ELSE success(s, modelResponse(m, q), perr)

Model(s, m, perr) == model(s, m, "", perr)

QueryModel(s, m, q, perr) == model(s, m, q, perr)

\* Request.collection
collection(s, c, q, perr) ==
    IF q # "" /\ query = ""
    THEN Raise(s, PanicQueryCollection)
    ELSE success(s, collectionResponse(c, q), perr)

Collection(s, c, perr) == collection(s, c, "", perr)

QueryCollection(s, c, q, perr) == collection(s, c, q, perr)

New(s, rid, perr) == success(s, rid, perr)

-----------------------------------------------------------------------------
(* Decoding helpers and Timeout, request.go:330-361 *)

ParseParams(s) ==
    LET u == Unmarshal(params)
    IN  IF u.err # ""
        THEN Raise(s, ResError(CodeInvalidParams, u.err))
        ELSE [s EXCEPT !.decoded = u.val]

ParseToken(s) ==
    IF params = RawNil
    THEN s
    ELSE LET u == Unmarshal(params)
         IN  IF u.err # ""
             THEN Raise(s, ResError(CodeInvalidParams, u.err))
             ELSE [s EXCEPT !.decoded = u.val]

\* strconv.FormatInt(n, 10) for n >= 0.
Digit(n) == CASE n = 0 -> "0" [] n = 1 -> "1" [] n = 2 -> "2" [] n = 3 -> "3"
              [] n = 4 -> "4" [] n = 5 -> "5" [] n = 6 -> "6" [] n = 7 -> "7"
              [] n = 8 -> "8" [] n = 9 -> "9"
RECURSIVE FormatInt(_)
FormatInt(n) == IF n < 10 THEN Digit(n) ELSE FormatInt(n \div 10) \o Digit(n % 10)

\* Request.Timeout; d is a time.Duration, in nanoseconds.
\* (TimeoutUnchecked is Timeout without the check of line 356; Go's integer
\* division truncates toward zero.  TimeoutTerminates is a Timeout that
\* counts as the reply.)
TimeoutTerminates(s, d) ==
    [rawEvent(s, "timeout:\"" \o FormatInt((IF d < 0 THEN 0 ELSE d) \div 1000000) \o "\"")
        EXCEPT !.replied = TRUE]
TimeoutUnchecked(s, d) ==
    rawEvent(s, "timeout:\""
                \o (IF d > 0 - 1000000 THEN FormatInt((IF d < 0 THEN 0 ELSE d) \div 1000000)
                    ELSE "-" \o FormatInt((0 - d) \div 1000000))
                \o "\"")
Timeout(s, d) ==
    IF d < 0
    THEN Raise(s, PanicNegativeTimeout)
    ELSE rawEvent(s, "timeout:\"" \o FormatInt(d \div 1000000) \o "\"")


-----------------------------------------------------------------------------
(* Request.executeHandler, request.go:398-493 *)

Logf(s, line) == [s EXCEPT !.logged = Append(@, line)]

\* What recover() returns in the deferred function for a panic raised with v.
\* A panic(nil) is reported as nil by a build with the panicnil behaviour of
\* go 1.12 (the go directive of go.mod) and as a *runtime.PanicNilError, an
\* error, by a build without it.
recover(v) ==
    IF v = NilPanic
    THEN {NilPanic, ErrorPanic("panic called with nil argument")}
    ELSE {v}

\* case *Error, lines 409-416: forwarded when no reply was sent, logged
\* otherwise.  e.Message dereferences e, which may be a nil *Error.
\* (caseErrorLogs lacks the return of line 414, caseErrorSilent never logs.)
caseErrorLogs(s, e, perr) ==
    LET s1 == IF ~s.replied THEN error(s, e, perr) ELSE s
    IN  IF s1.pan # NoPanic THEN s1
        ELSE IF e = NilResError THEN Raise(s1, NilDereference)
        ELSE Logf(s1, LogHandleError(e.msg))
caseErrorSilent(s, e, perr) ==
    IF ~s.replied THEN error(s, e, perr) ELSE s
caseError(s, e, perr) ==
    IF ~s.replied
    THEN error(s, e, perr)
    ELSE IF e = NilResError
         THEN Raise(s, NilDereference)
         ELSE Logf(s, LogHandleError(e.msg))

\* case error, case string and default, lines 417-432, and the Logf of line
\* 434: str is e.Error(), e, or fmt.Sprintf("%v", e).
\* (caseOtherAlwaysReplies lacks the checks of replied.)
caseOtherAlwaysReplies(s, str, perr) ==
    LET s1 == error(s, ToError(str), perr)
    IN  IF s1.pan # NoPanic
        THEN s1
        ELSE Logf(s1, LogHandleError(str))
caseOther(s, str, perr) ==
    LET s1 == IF ~s.replied
              THEN error(s, ToError(str), perr)
              ELSE s
    IN  IF s1.pan # NoPanic
        THEN s1
        ELSE Logf(s1, LogHandleError(str))

\* The deferred function, lines 400-435, for v = recover(); s is the Request
\* when the panic was raised.  No panic in flight is v = NoPanic; v == nil
\* holds for it and for a nil recover().
deferred(s, v, perr) ==
    IF v = NoPanic \/ v = NilPanic
    THEN s
    ELSE IF v.kind \in {"*Error", "nil *Error"}
         THEN caseError(s, v, perr)
         ELSE caseOther(s, v.msg, perr)

\* The switch of lines 437-488 up to the handler call: the handler it
\* invokes (h, "" for none) and the Request after what it does itself.

\* h = m[key] behind the nil check of lines 466-468 and 477-479, and h != nil.
registeredAlways(m, key) == TRUE
registered(m, key) == ~m.isNil /\ key \in m.keys

\* case "access", lines 440-445.
\* (caseAccessDenies answers for the missing access handler.)
caseAccessDenies(s, perr) ==
    IF ~hs.Access
    THEN [h |-> "", s |-> reply(s, responseAccessDenied, perr)]
    ELSE [h |-> "Access", s |-> s]
caseAccess(s, perr) ==
    IF ~hs.Access
    THEN [h |-> "", s |-> s]
    ELSE [h |-> "Access", s |-> s]

\* case "get", lines 446-455.
\* (caseGetUnchecked has no case rtypeUnset: the switch does nothing and
\* lines 490-492 follow.)
caseGetUnchecked(s, perr) ==
    CASE hs.typ = "unset"      -> [h |-> "", s |-> reply(s, responseMissingResponse, perr)]
      [] hs.typ = "model"      -> [h |-> "GetModel", s |-> s]
      [] hs.typ = "collection" -> [h |-> "GetCollection", s |-> s]
caseGet(s, perr) ==
    CASE hs.typ = "unset"      -> [h |-> "", s |-> reply(s, responseNotFound, perr)]
      [] hs.typ = "model"      -> [h |-> "GetModel", s |-> s]
      [] hs.typ = "collection" -> [h |-> "GetCollection", s |-> s]

\* case "call", lines 456-474.
\* (caseCallByMap looks "new" up in the Call map when there is no New handler.)
caseCallByMap(s, perr) ==
    IF method = "new" /\ hs.New
    THEN [h |-> "New", s |-> s]
    ELSE IF ~registered(hs.Call, method)
         THEN [h |-> "", s |-> reply(s, responseMethodNotFound, perr)]
         ELSE [h |-> "Call", s |-> s]
caseCall(s, perr) ==
    IF method = "new"
    THEN IF ~hs.New
         THEN [h |-> "", s |-> reply(s, responseMethodNotFound, perr)]
         ELSE [h |-> "New", s |-> s]
    ELSE IF ~registered(hs.Call, method)
         THEN [h |-> "", s |-> reply(s, responseMethodNotFound, perr)]
         ELSE [h |-> "Call", s |-> s]

\* case "auth", lines 475-484.
caseAuth(s, perr) ==
    IF ~registered(hs.Auth, method)
    THEN [h |-> "", s |-> reply(s, responseMethodNotFound, perr)]
    ELSE [h |-> "Auth", s |-> s]

dispatch(s, perr) ==
    CASE rtype = "access" -> caseAccess(s, perr)
      [] rtype = "get"    -> caseGet(s, perr)
      [] rtype = "call"   -> caseCall(s, perr)
      [] rtype = "auth"   -> caseAuth(s, perr)
      [] OTHER            -> [h |-> "", s |-> Logf(s, LogUnknownType)]

\* Lines 490-492: the fallback after a handler that returned.
\* (fallbackGeneric sends the wrong static response, fallbackNone none.)
fallbackGeneric(s, perr) ==
    IF ~s.replied
    THEN reply(s, responseInternalError, perr)
    ELSE s
fallbackNone(s, perr) == s
fallback(s, perr) ==
    IF ~s.replied
    THEN reply(s, responseMissingResponse, perr)
    ELSE s

-----------------------------------------------------------------------------
(* State *)

Commit(s) ==
    /\ replied' = s.replied
    /\ sent'    = s.sent
    /\ logged'  = s.logged
    /\ traced'  = s.traced
    /\ decoded' = s.decoded

NoCall == [op |-> "", flag |-> FALSE, arg |-> "", replied |-> FALSE, nsent |-> 0,
           pan |-> NoPanic]

NoTerm == [how |-> "", h |-> "", v |-> NoPanic, rv |-> NoPanic,
           replied |-> FALSE, nsent |-> 0, nlogged |-> 0, escaped |-> NoPanic]

\* executeHandler ends.  e is the Request as the handler left it (as it was
\* on entry when no handler is invoked), s the Request after the body of
\* executeHandler, s.pan the panic in flight, rv what recover() returns for it.
Leave(e, s, how, rv, perr) ==
    LET s1 == deferred([s EXCEPT !.pan = NoPanic], rv, perr)
    IN  /\ Commit([s1 EXCEPT !.pan = NoPanic])
        /\ pc' = IF s1.pan = NoPanic THEN "done" ELSE "crashed"
        /\ term' = [term EXCEPT !.how = how, !.v = s.pan,
                                !.rv = rv, !.replied = e.replied,
                                !.nsent = Len(e.sent),
                                !.nlogged = Len(e.logged),
                                !.escaped = s1.pan]

\* One call of a Request method, by a handler running under executeHandler
\* (pc = "handler": a panic ends the handler and reaches the deferred
\* function) or by a caller that calls the methods one after another and
\* recovers each panic itself (pc = "direct").  last is that call: the
\* method, its bool and string arguments (FALSE and "" where it has none),
\* replied and the number of messages sent before it, and the panic it
\* ended with.  s is the Request after the call.
CallStep(op, flag, arg, s, perr) ==
    /\ pc \in {"handler", "direct"}
    /\ nops < MaxOps
    /\ nops' = nops + 1
    /\ last' = [op |-> op, flag |-> flag, arg |-> arg, replied |-> replied,
                nsent |-> Len(sent), pan |-> s.pan]
    /\ IF pc = "direct"
       THEN /\ Commit([s EXCEPT !.pan = NoPanic])
            /\ UNCHANGED <<pc, term>>
       ELSE IF s.pan = NoPanic
            THEN Commit(s) /\ UNCHANGED <<pc, term>>
            ELSE \E rv \in recover(s.pan) : Leave(s, s, "panic", rv, perr)
    /\ UNCHANGED <<reqvars, gr>>

Step(op, arg, s, perr) == CallStep(op, FALSE, arg, s, perr)

-----------------------------------------------------------------------------
(* Inputs *)

\* nc.Publish returns nil ("") or an error.
PubErrs == {"", "nats: connection closed"}

Results     == {NilValue, ChanValue}
Errors      == {ResError("library.conflict", "Title taken")}
Messages    == {"", "Title missing"}
CallLists   == {"", "*", "set"}
Models      == {ObjectValue, ChanValue}
Collections == {ArrayValue}
Queries     == {"", "limit=5"}
Refs        == {RefValue}
Durations   == {0 - 1, 1500000000}

\* What application code panics with.
AppPanics ==
    {ResError("library.conflict", "Title taken"), NilResError,
     ErrorPanic("disk full"), StringPanic("boom"), OtherPanic("42"), NilPanic}

\* Requests: (rtype, method).
RequestKinds ==
    {<<"access", "">>, <<"get", "">>, <<"call", "new">>, <<"call", "set">>,
     <<"auth", "login">>, <<"subscribe", "">>}

\* Raw params and token payloads: (params, token).
Malformed == "{\"title\":"
RawPayloads ==
    {<<RawNil, RawNil>>, <<RawNil, "{\"user\":\"ann\"}">>, <<RawNil, Malformed>>,
     <<"{\"title\":\"Dune\"}", RawNil>>, <<"{\"title\":\"Dune\"}", Malformed>>,
     <<Malformed, "{\"user\":\"ann\"}">>}

NilMap     == [isNil |-> TRUE, keys |-> {}]
MapOf(ks)  == [isNil |-> FALSE, keys |-> ks]

\* Handler sets: which handlers are registered.  typ is set together with
\* the get handler of that kind.
Handlers(access, typ, call, new, auth) ==
    [Access |-> access, typ |-> typ, Call |-> call, New |-> new, Auth |-> auth]
HandlerSets ==
    { Handlers(FALSE, "unset", NilMap, FALSE, NilMap),
      Handlers(TRUE, "model", MapOf({"set"}), FALSE, MapOf({})),
      Handlers(TRUE, "collection", MapOf({"delete"}), TRUE, NilMap),
      Handlers(FALSE, "unset", MapOf({"new", "set"}), FALSE, MapOf({"login"})) }

-----------------------------------------------------------------------------
(* Actions *)

\* executeHandler is entered: the switch runs, and either a handler is
\* invoked or executeHandler answers (or stays silent) and ends.
Dispatch(perr) ==
    /\ pc = "created"
    /\ LET d == dispatch(Self, perr)
       IN  IF d.h # ""
           THEN /\ pc' = "handler"
                /\ term' = [term EXCEPT !.h = d.h]
                /\ Commit(d.s)
           ELSE \E rv \in recover(d.s.pan) :
                    Leave(Self, d.s, "unhandled", rv, perr)
    /\ UNCHANGED <<reqvars, nops, last, gr>>

\* The handler returns: the fallback of lines 490-492, then the deferred
\* function with nothing to recover.
HandlerReturn(perr) ==
    /\ pc = "handler"
    /\ LET s == fallback(Self, perr)
       IN  \E rv \in recover(s.pan) : Leave(Self, s, "return", rv, perr)
    /\ UNCHANGED <<reqvars, nops, last, gr>>

\* The handler panics with a value of its own.
HandlerPanic(v, perr) ==
    /\ pc = "handler"
    /\ \E rv \in recover(v) : Leave(Self, Raise(Self, v), "panic", rv, perr)
    /\ UNCHANGED <<reqvars, nops, last, gr>>

DoOK(result, perr)       == Step("OK", "", OK(Self, result, perr), perr)
DoError(err, perr)       == Step("Error", "", Error(Self, err, perr), perr)
DoNotFound(perr)         == Step("NotFound", "", NotFound(Self, perr), perr)
DoMethodNotFound(perr)   == Step("MethodNotFound", "", MethodNotFound(Self, perr), perr)
DoInvalidParams(message, perr) ==
    Step("InvalidParams", message, InvalidParams(Self, message, perr), perr)
DoAccess(get, call, perr) ==
    CallStep("Access", get, call, Access(Self, get, call, perr), perr)
DoAccessDenied(perr)     == Step("AccessDenied", "", AccessDenied(Self, perr), perr)
DoAccessGranted(perr)    == Step("AccessGranted", "", AccessGranted(Self, perr), perr)
DoModel(m, perr)         == Step("Model", "", Model(Self, m, perr), perr)
DoQueryModel(m, q, perr) == Step("QueryModel", q, QueryModel(Self, m, q, perr), perr)
DoCollection(c, perr)    == Step("Collection", "", Collection(Self, c, perr), perr)
DoQueryCollection(c, q, perr) ==
    Step("QueryCollection", q, QueryCollection(Self, c, q, perr), perr)
DoNew(rid, perr)         == Step("New", "", New(Self, rid, perr), perr)
DoParseParams(perr)      == Step("ParseParams", "", ParseParams(Self), perr)
DoParseToken(perr)       == Step("ParseToken", "", ParseToken(Self), perr)
\* The duration is recorded by its sign and its decimal form, in nanoseconds.
DoTimeout(d, perr) ==
    CallStep("Timeout", d < 0, FormatInt(IF d < 0 THEN 0 - d ELSE d),
             Timeout(Self, d), perr)

\* Any one method call.
Call ==
    \E perr \in PubErrs :
        \/ \E result \in Results : DoOK(result, perr)
        \/ \E err \in Errors : DoError(err, perr)
        \/ DoNotFound(perr)
        \/ DoMethodNotFound(perr)
        \/ \E message \in Messages : DoInvalidParams(message, perr)
        \/ \E get \in BOOLEAN, call \in CallLists : DoAccess(get, call, perr)
        \/ DoAccessDenied(perr)
        \/ DoAccessGranted(perr)
        \/ \E m \in Models : DoModel(m, perr)
        \/ \E m \in Models, q \in Queries : DoQueryModel(m, q, perr)
        \/ \E c \in Collections : DoCollection(c, perr)
        \/ \E c \in Collections, q \in Queries : DoQueryCollection(c, q, perr)
        \/ \E rid \in Refs : DoNew(rid, perr)
        \/ DoParseParams(perr)
        \/ DoParseToken(perr)
        \/ \E d \in Durations : DoTimeout(d, perr)

-----------------------------------------------------------------------------
(* Specifications *)

NoGoroutines == [g \in {1, 2} |-> [at |-> "off", payload |-> ""]]

InitRequest ==
    /\ \E k \in RequestKinds : rtype = k[1] /\ method = k[2]
    /\ query \in Queries
    /\ \E p \in RawPayloads : params = p[1] /\ token = p[2]
    /\ hs \in HandlerSets
    /\ replied = FALSE
    /\ sent = <<>>
    /\ logged = <<>>
    /\ traced = <<>>
    /\ decoded = ""
    /\ nops = 0
    /\ last = NoCall
    /\ term = NoTerm

\* A request handed to executeHandler.
Init == InitRequest /\ pc = "created" /\ gr = NoGoroutines

Next ==
    \/ \E perr \in PubErrs : Dispatch(perr)
    \/ Call
    \/ \E perr \in PubErrs : HandlerReturn(perr)
    \/ \E v \in AppPanics, perr \in PubErrs : HandlerPanic(v, perr)

Spec == Init /\ [][Next]_vars


\* A call request whose methods are called directly, one after another, by
\* a caller that recovers each panic.
InitCalls ==
    /\ InitRequest
    /\ rtype = "call" /\ method = "set"
    /\ hs = Handlers(TRUE, "model", MapOf({"set"}), FALSE, MapOf({}))
    /\ pc = "direct"
    /\ gr = NoGoroutines

NextCalls == Call

SpecCalls == InitCalls /\ [][NextCalls]_vars

-----------------------------------------------------------------------------
(* Two goroutines replying on one Request *)

\* Request.reply, lines 386-396, run by goroutine g statement by statement:
\* r.replied is a plain bool field of Request (line 28) and reply takes no lock.
RacePayloads == {responseNotFound, responseAccessGranted, responseInvalidParams}

\* line 387: if r.replied { panic(...) }
ReplyCheck(g) ==
    /\ pc = "race"
    /\ gr[g].at = "call"
    /\ gr' = [gr EXCEPT ![g].at = IF replied THEN "panicked" ELSE "set"]
    /\ UNCHANGED <<reqvars, replied, sent, logged, traced, decoded, pc, nops,
                   last, term>>

\* line 390: r.replied = true
ReplySet(g) ==
    /\ pc = "race"
    /\ gr[g].at = "set"
    /\ replied' = TRUE
    /\ gr' = [gr EXCEPT ![g].at = "trace"]
    /\ UNCHANGED <<reqvars, sent, logged, traced, decoded, pc, nops, last, term>>

\* line 391: r.s.Tracef(...)
ReplyTrace(g) ==
    /\ pc = "race"
    /\ gr[g].at = "trace"
    /\ traced' = Append(traced, TraceReply(gr[g].payload))
    /\ gr' = [gr EXCEPT ![g].at = "publish"]
    /\ UNCHANGED <<reqvars, replied, sent, logged, decoded, pc, nops, last, term>>

\* lines 392-395: the publish, and the log line when it fails
ReplyPublish(g, perr) ==
    /\ pc = "race"
    /\ gr[g].at = "publish"
    /\ sent' = Append(sent, Message(gr[g].payload, "Publish", perr))
    /\ logged' = IF perr # "" THEN Append(logged, LogSendError(perr)) ELSE logged
    /\ gr' = [gr EXCEPT ![g].at = "returned"]
    /\ UNCHANGED <<reqvars, replied, traced, decoded, pc, nops, last, term>>

InitRace ==
    /\ InitRequest
    /\ rtype = "call" /\ method = "set"
    /\ query = "" /\ params = RawNil /\ token = RawNil
    /\ hs = Handlers(TRUE, "model", MapOf({"set"}), FALSE, MapOf({}))
    /\ pc = "race"
    /\ gr \in [{1, 2} -> [at : {"call"}, payload : RacePayloads]]

NextRace ==
    \E g \in {1, 2} :
        \/ ReplyCheck(g)
        \/ ReplySet(g)
        \/ ReplyTrace(g)
        \/ \E perr \in PubErrs : ReplyPublish(g, perr)

SpecRace == InitRace /\ [][NextRace]_vars


-----------------------------------------------------------------------------
(* Observations *)

RequestTypes == {"access", "get", "call", "auth"}

ReplyMethods ==
    {"OK", "Error", "NotFound", "MethodNotFound", "InvalidParams", "Access",
     "AccessDenied", "AccessGranted", "Model", "QueryModel", "Collection",
     "QueryCollection", "New"}

\* The replies: what nc.Publish was given for the reply address.
Replies    == SelectSeq(sent, LAMBDA m : m.via = "Publish")
NumReplies == Len(Replies)

\* What was logged after the first n lines.
LoggedAfter(n) == SubSeq(logged, n + 1, Len(logged))

\* A reply with these bytes, whatever nc.Publish returned for it.
IsReply(m, data) == m.via = "Publish" /\ m.data = data

\* The log lines of a sequence that do not report a failed publish.  A
\* failed publish is the transport's fault and is logged by reply itself.
IsSendErrorLine(l) == \E e \in PubErrs \ {""} : l = LogSendError(e)
FaultLines(lines)  == SelectSeq(lines, LAMBDA l : ~IsSendErrorLine(l))

\* executeHandler is over: it returned, or a panic left it.
Over == pc \in {"done", "crashed"}

\* The last direct call was a query reply with a query on a Request without.
GuardTripped ==
    last.op \in {"QueryModel", "QueryCollection"} /\ last.arg # "" /\ query = ""

\* The panics of the library that tell of a misuse by the handler.
ProgrammingFaults ==
    {PanicAlreadySent, PanicQueryModel, PanicQueryCollection, PanicNegativeTimeout}

-----------------------------------------------------------------------------
(* Properties *)

\* C1 (SpecCalls): reply methods called one after another on one Request
\* publish at most one reply; the first call that reaches Request.reply is
\* published and sets replied; every reply method called after it panics and
\* publishes nothing, with "res: response already sent on request" whenever
\* the call reaches Request.reply (a query reply that trips the query guard
\* panics before it gets there).
ReplyOnce ==
    /\ NumReplies <= 1
    /\ replied <=> NumReplies = 1
    /\ (last.op \in ReplyMethods /\ last.replied) =>
            /\ last.pan # NoPanic
            /\ sent = SubSeq(sent, 1, last.nsent)
            /\ ~GuardTripped => last.pan = PanicAlreadySent
    /\ (last.op \in ReplyMethods /\ ~last.replied /\ ~GuardTripped) =>
            /\ last.pan = NoPanic
            /\ Len(sent) = last.nsent + 1
            /\ sent[Len(sent)].via = "Publish"
            /\ replied

ReplyOnceWitness ==
    /\ pc = "direct"
    /\ last.op \in ReplyMethods /\ last.replied
    /\ last.pan = PanicAlreadySent
    /\ NumReplies = 1

\* C2 as claimed: whenever executeHandler has returned, exactly one reply
\* has been published.
ExactlyOneReplyAlways == pc = "done" => NumReplies = 1

\* executeHandler returns without any reply: an access request without access
\* handler, a request of unknown type, and a handler that panics with nil
\* before replying where recover() reports nil.
Silent ==
    \/ rtype = "access" /\ ~hs.Access
    \/ rtype \notin RequestTypes
    \/ term.how = "panic" /\ term.rv = NilPanic /\ ~term.replied

\* C2 amended: never more than one reply is published, and when
\* executeHandler has returned exactly one has been, except in the three
\* cases of Silent, where none has.
ExactlyOneReplyUnlessSilent ==
    /\ NumReplies <= 1
    /\ pc = "done" => NumReplies = (IF Silent THEN 0 ELSE 1)

ExactlyOneReplyWitness ==
    /\ pc = "done"
    /\ term.how = "panic" /\ term.v.kind = "string" /\ ~term.replied
    /\ NumReplies = 1

\* C3: when an invoked handler returns without having replied, what
\* executeHandler publishes after it is exactly the missing-response reply,
\* and no fault is logged; when the handler had replied, nothing is published
\* after it.
FallbackVerbatim ==
    (Over /\ term.how = "return" /\ term.h # "") =>
        IF ~term.replied
        THEN /\ Len(sent) = term.nsent + 1
             /\ IsReply(sent[Len(sent)], responseMissingResponse)
             /\ FaultLines(LoggedAfter(term.nlogged)) = <<>>
             /\ pc = "done"
        ELSE /\ sent = SubSeq(sent, 1, term.nsent)
             /\ pc = "done"

FallbackWitness ==
    /\ pc = "done" /\ term.how = "return" /\ ~term.replied
    /\ IsReply(sent[Len(sent)], responseMissingResponse)

\* C4 as claimed (SpecRace): two goroutines replying on one Request never
\* both publish.
ConcurrentReplyOnce == NumReplies <= 1

\* C5: a handler that panics with a non-nil *Error before any reply gets
\* that error published as the one reply, and no fault is logged.
ErrorPanicForwarded ==
    (Over /\ term.how = "panic" /\ term.v.kind = "*Error" /\ ~term.replied) =>
        /\ pc = "done"
        /\ Len(sent) = term.nsent + 1
        /\ IsReply(sent[Len(sent)], MarshalErrorResponse(term.v))
        /\ NumReplies = 1
        /\ FaultLines(LoggedAfter(term.nlogged)) = <<>>

ErrorPanicForwardedWitness ==
    /\ pc = "done" /\ term.how = "panic" /\ ~term.replied
    /\ term.v = ResError("library.conflict", "Title taken")
    /\ NumReplies = 1

\* C6 as claimed: a handler that panics with anything but a *Error gets one
\* log line naming the subject and the cause, and one internal-error reply
\* if it had not replied, no further reply if it had.
UnexpectedPanicReported ==
    (Over /\ term.how = "panic" /\ term.v.kind \in {"error", "string", "other", "nil"}) =>
        /\ pc = "done"
        /\ Len(FaultLines(LoggedAfter(term.nlogged))) = 1
        /\ term.v # NilPanic =>
              FaultLines(LoggedAfter(term.nlogged)) = <<LogHandleError(term.v.msg)>>
        /\ IF term.replied
           THEN sent = SubSeq(sent, 1, term.nsent)
           ELSE /\ Len(sent) = term.nsent + 1
                /\ IsReply(sent[Len(sent)], MarshalErrorResponse(ToError(term.rv.msg)))

\* C7 as claimed: no panic leaves executeHandler.
PanicsContained == pc # "crashed"

\* C8 as claimed, for an application-defined *Error: the *Error a handler
\* panics with is always delivered as the reply and never logged, also when
\* the handler had replied before.
ErrorPanicNeverLogged ==
    (pc = "done" /\ term.how = "panic" /\ term.v \in Errors) =>
        /\ IsReply(sent[Len(sent)], MarshalErrorResponse(term.v))
        /\ FaultLines(LoggedAfter(term.nlogged)) = <<>>

\* C8 amended: a non-nil *Error panic raised before any reply is delivered as
\* the reply and not logged; raised after a reply it is not delivered and is
\* logged with its message; a handler that returns never has a fault logged.
ErrorPanicLoggedOnlyAfterReply ==
    /\ (pc = "done" /\ term.how = "panic" /\ term.v.kind = "*Error") =>
          IF ~term.replied
          THEN /\ Len(sent) = term.nsent + 1
               /\ IsReply(sent[Len(sent)], MarshalErrorResponse(term.v))
               /\ FaultLines(LoggedAfter(term.nlogged)) = <<>>
          ELSE /\ sent = SubSeq(sent, 1, term.nsent)
               /\ FaultLines(LoggedAfter(term.nlogged)) = <<LogHandleError(term.v.msg)>>
    /\ (pc = "done" /\ term.how = "return") => FaultLines(logged) = <<>>

ErrorPanicAfterReplyWitness ==
    /\ pc = "done" /\ term.how = "panic" /\ term.v.kind = "*Error" /\ term.replied
    /\ FaultLines(logged) = <<LogHandleError(term.v.msg)>>

\* C9: a double reply, a negative timeout or a tripped query guard in a
\* handler is logged once with its message; an internal-error reply follows
\* exactly when no reply had been sent, and the replies never exceed one.
FaultsReported ==
    (Over /\ term.how = "panic" /\ term.v \in ProgrammingFaults) =>
        /\ pc = "done"
        /\ FaultLines(LoggedAfter(term.nlogged)) = <<LogHandleError(term.v.msg)>>
        /\ NumReplies = 1
        /\ IF term.replied
           THEN sent = SubSeq(sent, 1, term.nsent)
           ELSE /\ Len(sent) = term.nsent + 1
                /\ IsReply(sent[Len(sent)], MarshalErrorResponse(ToError(term.v.msg)))

FaultsReportedWitness ==
    /\ pc = "done" /\ term.how = "panic" /\ term.v = PanicAlreadySent
    /\ term.replied /\ NumReplies = 1
    /\ logged[Len(logged)] = LogHandleError(PanicAlreadySent.msg)

\* C10 as claimed (SpecCalls): on a Request without query every QueryModel
\* and QueryCollection call panics and publishes nothing, whatever its query
\* argument.
QueryGuardAnyArgument ==
    (last.op \in {"QueryModel", "QueryCollection"} /\ query = "") =>
        /\ last.pan # NoPanic
        /\ sent = SubSeq(sent, 1, last.nsent)

\* C10 amended: on a Request without query a QueryModel or QueryCollection
\* call with a non-empty query argument panics on the query guard and
\* publishes nothing, replied or not; with an empty query argument it is the
\* plain Model or Collection reply, which never trips the guard.
QueryGuard ==
    /\ GuardTripped =>
          /\ last.pan = IF last.op = "QueryModel" THEN PanicQueryModel
                        ELSE PanicQueryCollection
          /\ sent = SubSeq(sent, 1, last.nsent)
          /\ replied = last.replied
    /\ (last.op \in {"Model", "Collection", "QueryModel", "QueryCollection"}
        /\ ~GuardTripped) =>
          /\ last.pan \notin {PanicQueryModel, PanicQueryCollection}
          /\ ~last.replied => last.pan = NoPanic /\ Len(sent) = last.nsent + 1

QueryGuardWitness ==
    /\ pc = "direct" /\ query = ""
    /\ last.op = "QueryModel" /\ last.arg # "" /\ ~last.replied
    /\ last.pan = PanicQueryModel /\ sent = <<>>

\* C11 (SpecCalls): on an unreplied Request, Access(false, "") publishes the
\* bytes AccessDenied() publishes and Access(true, "*") the bytes
\* AccessGranted() publishes; every other Access(get, call) publishes the
\* success reply {"result":{"get":<get>,"call":"<call>"}}; each of these calls
\* returns, publishes exactly that one reply and sets replied.
AccessNormalization ==
    (last.op \in {"Access", "AccessDenied", "AccessGranted"} /\ ~last.replied) =>
        /\ last.pan = NoPanic
        /\ replied
        /\ NumReplies = 1
        /\ Len(sent) = last.nsent + 1
        /\ LET m == sent[Len(sent)]
           IN  CASE last.op = "AccessDenied"  -> IsReply(m, responseAccessDenied)
                 [] last.op = "AccessGranted" -> IsReply(m, responseAccessGranted)
                 [] last.op = "Access" /\ ~last.flag /\ last.arg = "" ->
                        IsReply(m, responseAccessDenied)
                 [] last.op = "Access" /\ last.flag /\ last.arg = "*" ->
                        IsReply(m, responseAccessGranted)
                 [] OTHER ->
                        IsReply(m, "{\"result\":{\"get\":"
                                   \o (IF last.flag THEN "true" ELSE "false")
                                   \o ",\"call\":\"" \o last.arg \o "\"}}")

AccessNormalizationWitness ==
    /\ pc = "direct"
    /\ last.op = "Access" /\ ~last.flag /\ last.arg = "" /\ ~last.replied
    /\ replied
    /\ IsReply(sent[Len(sent)], responseAccessDenied)

\* C12 (SpecCalls): Timeout with a negative duration panics with "res:
\* negative timeout duration" and does nothing else: nothing is sent to the
\* reply address, replied is as before, and the messages sent before it,
\* a timeout extension among them, are all there is.
NegativeTimeoutFaults ==
    (last.op = "Timeout" /\ last.flag) =>
        /\ last.pan = PanicNegativeTimeout
        /\ Len(sent) = last.nsent
        /\ replied = last.replied
        /\ \A i \in DOMAIN sent :
              sent[i].via = "rawEvent" => sent[i].data = "timeout:\"1500\""

NegativeTimeoutWitness ==
    /\ pc = "direct"
    /\ last.op = "Timeout" /\ last.flag /\ last.pan = PanicNegativeTimeout
    /\ sent = <<Message("timeout:\"1500\"", "rawEvent", "")>>
    /\ ~replied

\* C13: Timeout(d) with d >= 0 returns, sends timeout:"<d in ms>" to the
\* reply address and leaves replied as it was; the first reply method called
\* on an unreplied Request, after timeouts or not, returns and has its reply
\* published; and a handler that sent timeouts and returns without a reply
\* gets the missing-response reply sent for it.
TimeoutKeepsRequestOpen ==
    /\ (last.op = "Timeout" /\ ~last.flag) =>
          /\ last.pan = NoPanic
          /\ pc = "handler" =>
                /\ Len(sent) = last.nsent + 1
                /\ last.arg = "1500000000" =>
                      sent[Len(sent)] = Message("timeout:\"1500\"", "rawEvent", "")
                /\ replied = last.replied
    /\ (last.op \in ReplyMethods /\ ~last.replied /\ ~GuardTripped) =>
          /\ last.pan = NoPanic
          /\ pc = "handler" =>
                /\ replied
                /\ Len(sent) = last.nsent + 1
                /\ sent[Len(sent)].via = "Publish"
    /\ (Over /\ term.how = "return" /\ ~term.replied /\ term.nsent > 0) =>
          /\ pc = "done"
          /\ Len(sent) = term.nsent + 1
          /\ IsReply(sent[Len(sent)], responseMissingResponse)
          /\ NumReplies = 1

TimeoutKeepsRequestOpenWitness ==
    /\ pc = "done" /\ term.how = "return" /\ ~term.replied
    /\ last.op = "Timeout" /\ ~last.flag
    /\ Len(sent) = 3
    /\ sent[1].via = "rawEvent" /\ sent[2].via = "rawEvent"
    /\ IsReply(sent[3], responseMissingResponse)

\* C14: for a call request (other than "new") or an auth request whose method
\* is not in the Call or Auth map, or whose map is nil, executeHandler invokes
\* no handler and publishes exactly one message, the system.methodNotFound
\* reply; nothing follows it.
MethodNotFoundWhenUnregistered ==
    (/\ pc # "created"
     /\ \/ rtype = "call" /\ method # "new"
           /\ (hs.Call.isNil \/ method \notin hs.Call.keys)
        \/ rtype = "auth"
           /\ (hs.Auth.isNil \/ method \notin hs.Auth.keys)) =>
        /\ pc = "done"
        /\ term.how = "unhandled" /\ term.h = "" /\ nops = 0
        /\ Len(sent) = 1
        /\ IsReply(sent[1], "{\"error\":{\"code\":\"system.methodNotFound\",\"message\":\"Method not found\"}}")
        /\ replied

MethodNotFoundWitness ==
    /\ pc = "done" /\ rtype = "auth" /\ ~hs.Auth.isNil /\ method \notin hs.Auth.keys
    /\ term.h = ""
    /\ Len(sent) = 1 /\ IsReply(sent[1], responseMethodNotFound)

\* C15: for an access request on a handler set without access handler,
\* executeHandler ends without invoking a handler, with nothing sent to the
\* reply address, replied false, and nothing logged or traced.
AccessUnhandledSilent ==
    (rtype = "access" /\ ~hs.Access /\ pc # "created") =>
        /\ pc = "done"
        /\ term.how = "unhandled" /\ term.h = "" /\ nops = 0
        /\ sent = <<>>
        /\ ~replied
        /\ logged = <<>>
        /\ traced = <<>>

AccessUnhandledWitness ==
    /\ pc = "done" /\ rtype = "access" /\ ~hs.Access
    /\ sent = <<>> /\ ~replied /\ logged = <<>>

\* C16: a get request on a handler set of kind unset is answered with one
\* message, the system.notFound reply, and no handler is invoked; on a model
\* the handler invoked is GetModel, on a collection GetCollection.
GetByKind ==
    (rtype = "get" /\ pc # "created") =>
        CASE hs.typ = "unset" ->
                /\ pc = "done"
                /\ term.how = "unhandled" /\ term.h = "" /\ nops = 0
                /\ Len(sent) = 1
                /\ IsReply(sent[1], "{\"error\":{\"code\":\"system.notFound\",\"message\":\"Not found\"}}")
                /\ replied
          [] hs.typ = "model"      -> term.h = "GetModel"
          [] hs.typ = "collection" -> term.h = "GetCollection"

GetUnsetWitness ==
    /\ pc = "done" /\ rtype = "get" /\ hs.typ = "unset"
    /\ term.h = ""
    /\ Len(sent) = 1 /\ IsReply(sent[1], responseNotFound)

\* C17 as claimed (SpecCalls): ParseParams on a Request without params
\* returns without a panic, sends nothing and leaves the target as it was.
ParseParamsNilNoop ==
    (last.op = "ParseParams" /\ params = RawNil) =>
        /\ last.pan = NoPanic
        /\ Len(sent) = last.nsent
        /\ replied = last.replied
        /\ decoded = ""

\* C18 as claimed: ParseToken on a Request with a malformed token, called by
\* a handler that has not replied, panics with a system.internalError *Error,
\* which ends the handler with that error as the one reply and no fault line.
MalformedTokenInternalError ==
    (last.op = "ParseToken" /\ token = Malformed /\ ~last.replied) =>
        /\ last.pan.kind = "*Error"
        /\ last.pan.code = CodeInternalError
        /\ Over
        /\ NumReplies = 1
        /\ IsReply(sent[Len(sent)], MarshalErrorResponse(last.pan))
        /\ FaultLines(logged) = <<>>

\* C19: once the publish of a reply failed, that reply is the only one ever
\* handed to the transport, the failure is logged once, replied is true,
\* and a reply method called afterwards panics and publishes nothing.
PublishFailureNotRetried ==
    (\E i \in DOMAIN sent : sent[i].via = "Publish" /\ sent[i].err # "") =>
        /\ NumReplies = 1
        /\ replied
        /\ Len(SelectSeq(logged, IsSendErrorLine)) = 1
        /\ (last.op \in ReplyMethods /\ last.replied) =>
              /\ last.pan # NoPanic
              /\ ~GuardTripped => last.pan = PanicAlreadySent
        /\ (Over /\ term.replied) => sent = SubSeq(sent, 1, term.nsent)

PublishFailureWitness ==
    /\ pc = "done" /\ term.how = "return" /\ term.replied
    /\ Len(sent) = 1 /\ sent[1].via = "Publish" /\ sent[1].err # ""
    /\ logged = <<LogSendError(sent[1].err)>>

\* C20: a call request with method "new" invokes the New handler when there
\* is one and is answered with system.methodNotFound when there is none,
\* whatever the Call map holds; a call with another method never invokes the
\* New handler.
NewRoutedToNewSlot ==
    (rtype = "call" /\ pc # "created") =>
        IF method = "new"
        THEN IF hs.New
             THEN term.h = "New"
             ELSE /\ pc = "done"
                  /\ term.how = "unhandled" /\ term.h = "" /\ nops = 0
                  /\ Len(sent) = 1
                  /\ IsReply(sent[1], "{\"error\":{\"code\":\"system.methodNotFound\",\"message\":\"Method not found\"}}")
        ELSE term.h # "New"

NewRoutedWitness ==
    /\ pc = "done" /\ rtype = "call" /\ method = "new"
    /\ ~hs.New /\ ~hs.Call.isNil /\ "new" \in hs.Call.keys
    /\ term.h = ""
    /\ Len(sent) = 1 /\ IsReply(sent[1], responseMethodNotFound)

\* C21 as claimed (SpecCalls): what ParseToken does is decided by the token
\* alone, whatever the params are; in particular the first call on a Request
\* does nothing (no panic, target untouched) exactly when the Request has no
\* token.
ParseTokenByTokenOnly ==
    (last.op = "ParseToken" /\ nops = 1) =>
        ((last.pan = NoPanic /\ decoded = "") <=> token = RawNil)

=============================================================================
